---------------------------- MODULE Spec2Model ----------------------------
(***************************************************************************)
(* Model of the planner-vitrine store (store/useStore.ts, kept here as     *)
(* src/unnamed/part_000): a process-wide StoreState singleton, updated     *)
(* optimistically by the mutation actions, written to localStorage by      *)
(* every updateState, and reconciled with an optional remote store.        *)
(*                                                                         *)
(* Conventions.                                                            *)
(*  - A JavaScript object is a TLA+ record (a function on field names); a  *)
(*    field that is absent, undefined or null is absent from the DOMAIN.   *)
(*  - Strings are TLC strings (sequences of characters).                   *)
(*  - null, as a value of currentClientId, is the string Null.             *)
(*  - { ...a, ...b } is  b @@ a  (the later spread wins).                  *)
(***************************************************************************)
EXTENDS Integers, Sequences, FiniteSets, TLC

VARIABLES
  globalState,   \* the StoreState singleton (part_000:41)
  stored,        \* localStorage[STORAGE_KEY] (part_000:31, 50)
  storageFull,   \* localStorage.setItem throws (the quota is exhausted)
  listeners,     \* the listener registry, in insertion order (part_000:47)
  lastApply,     \* the latest updateState call: [seq, write, registered,
                 \*   notified, fields, seenState, seenCache]
  bridge,        \* the useStore consumers: [refs, consumers]
  surfaced,      \* how errors have reached a caller: "rejected", "threw"
  supabase,      \* whether the remote client is configured (part_000:3)
  db,            \* the remote tables: [clients, cards]
  calls,         \* remote calls in flight, each with its continuation
  nextUuid,      \* number of uuid() results handed out so far
  nextRow,       \* number of ids the remote store has assigned so far
  localOnly,     \* the StoreState of a twin run in which supabase is null
  steps,         \* number of calls the consumer has made
  fn             \* a pure function under test: [pc, arg, mid, res]

vars == <<globalState, stored, storageFull, listeners, lastApply, bridge, surfaced,
          supabase, db, calls, nextUuid, nextRow, localOnly, steps, fn>>

(***************************************************************************)
(* Bounds of the model.                                                    *)
(***************************************************************************)
MaxSteps == 2       \* calls the consumer makes in one run
MaxBridgeSteps == 3 \* calls and renders in one run of the bridge alone

Null == "null"
EmptyObj == [k \in {} |-> ""]

Has(o, f) == f \in DOMAIN o
\* o.f ?? d
Coalesce(o, f, d) == IF Has(o, f) THEN o[f] ELSE d
\* o.f || d, for a string field
OrElse(o, f, d) == IF Has(o, f) /\ o[f] # "" THEN o[f] ELSE d
\* !!o.f, for a boolean field
Truthy(o, f) == Has(o, f) /\ o[f] = TRUE
\* delete o.f
Without(o, fs) == [k \in (DOMAIN o) \ fs |-> o[k]]
\* the fields of o among fs that are set
Pick(o, fs) == [k \in (DOMAIN o) \cap fs |-> o[k]]

Range(s) == {s[i] : i \in DOMAIN s}

(***************************************************************************)
(* String.prototype.trim, on the space character.                          *)
(***************************************************************************)
RECURSIVE TrimLeft(_)
TrimLeft(s) == IF s # "" /\ Head(s) = " " THEN TrimLeft(Tail(s)) ELSE s

RECURSIVE TrimRight(_)
TrimRight(s) ==
  IF s # "" /\ SubSeq(s, Len(s), Len(s)) = " "
  THEN TrimRight(SubSeq(s, 1, Len(s) - 1))
  ELSE s

Trim(s) == TrimRight(TrimLeft(s))

(***************************************************************************)
(* Normalizer: the mappers between remote rows and in-memory entities.     *)
(***************************************************************************)
\* part_000:81-90.  raw = input?.name ?? input?.nome ?? ''
normalizeClient(input) ==
  LET raw == IF Has(input, "name") THEN input.name
             ELSE IF Has(input, "nome") THEN input.nome
             ELSE ""
      normalizedName == Trim(raw)
  IN  [name |-> normalizedName, nome |-> normalizedName] @@ input

ProfileFields == {"instagram", "nicho", "tomDeVoz", "objetivos", "observacoes"}

\* new Date().toISOString(): the clock is not modelled, one instant stands for all
NowISO == "now"

\* part_000:97-111
dbClientToApp(row) ==
  normalizeClient(
    [id |-> row.id,
     name |-> IF Has(row, "name") THEN row.name ELSE Coalesce(row, "nome", ""),
     createdAt |-> IF Has(row, "created_at") THEN row.created_at
                   ELSE Coalesce(row, "createdAt", NowISO)]
    @@ Pick(row, ProfileFields))

\* part_000:113-124
appClientToDbInsert(client) ==
  LET c == normalizeClient(client)
  IN  [name |-> c.name] @@ Pick(c, ProfileFields)

\* part_000:126-139
appClientToDbUpdate(updates) ==
  LET u == normalizeClient(updates)
  IN  Without(u, {"nome", "createdAt", "created_at"})

\* part_000:146-166
dbCardToApp(row) ==
  [id |-> row.id,
   clientId |-> IF Has(row, "client_id") THEN row.client_id
                ELSE Coalesce(row, "clientId", ""),
   dateISO |-> Coalesce(row, "dateISO", ""),
   titulo |-> IF Has(row, "titulo") THEN row.titulo
              ELSE Coalesce(row, "title", "Novo Post"),
   tipo |-> Coalesce(row, "tipo", "Post"),
   pilar |-> Coalesce(row, "pilar", "Geral"),
   status |-> Coalesce(row, "status", "A Fazer"),
   copy |-> Coalesce(row, "copy", ""),
   legenda |-> Coalesce(row, "legenda", ""),
   notas |-> Coalesce(row, "notas", ""),
   links |-> Coalesce(row, "links", <<>>),
   checklist |-> Coalesce(row, "checklist", <<>>),
   tags |-> Coalesce(row, "tags", <<>>),
   isBacklog |-> Truthy(row, "isBacklog"),
   isFavorite |-> Truthy(row, "isFavorite")]

\* part_000:168-171
appCardToDbInsert(card) ==
  [title |-> Coalesce(card, "titulo", "Novo Post")] @@ 
  (IF Has(card, "clientId") THEN [client_id |-> card.clientId] ELSE EmptyObj)

\* part_000:173-178
appCardToDbUpdate(updates) ==
  (IF Has(updates, "titulo") THEN [title |-> updates.titulo] ELSE EmptyObj) @@
  (IF Has(updates, "clientId") THEN [client_id |-> updates.clientId] ELSE EmptyObj)

(***************************************************************************)
(* Identifiers.  uuid() (part_000:69-72) returns a value it has never      *)
(* returned before; the remote store assigns the ids of the rows it        *)
(* inserts.                                                                *)
(***************************************************************************)
UuidNames == <<"u1", "u2", "u3", "u4", "u5", "u6">>
RowIdNames == <<"s1", "s2", "s3", "s4", "s5", "s6">>

uuid == UuidNames[nextUuid + 1]
IssuedUuids == {UuidNames[i] : i \in 1..nextUuid}
IssuedRowIds == {RowIdNames[i] : i \in 1..nextRow}

(***************************************************************************)
(* Persistence Adapter and State Container.                                *)
(***************************************************************************)
\* part_000:29-37, as the fields the spread of part_000:42 takes from the
\* result.  The cache is absent (getItem returns null), "garbage" (JSON.parse
\* throws, which is caught), "null" (the text null: JSON.parse returns null,
\* whose spread has no fields) or "json" (the text of a record, returned as
\* parsed, whatever fields it has).
getSavedState(cache) ==
  CASE cache.kind = "json" -> cache.value
    [] cache.kind = "null" -> EmptyObj
    [] OTHER -> [clients |-> <<>>, cards |-> <<>>, dailyNotes |-> <<>>]

\* a write that serialises the whole state, selection included
persistLocalWholeState(st) ==
  [kind |-> "json",
   value |-> [clients |-> st.clients, cards |-> st.cards,
              dailyNotes |-> st.dailyNotes,
              currentClientId |-> st.currentClientId]]

\* part_000:49-58: the value localStorage holds after a successful setItem
persistLocal(st) ==
  [kind |-> "json",
   value |-> [clients |-> st.clients, cards |-> st.cards,
              dailyNotes |-> st.dailyNotes]]

\* part_000:64
Merge(st, patch) == patch @@ st

(***************************************************************************)
(* Subscription Bridge, the part updateState reaches.  Reference identity  *)
(* (!==) is modelled by what it can tell apart: the clients array is a new *)
(* reference whenever a patch carries clients (every patch of this module  *)
(* builds its arrays anew) and bridge.refs counts those references; a      *)
(* primitive is its value; a selector that filters builds a new array at   *)
(* every evaluation, identical to no array built before.                   *)
(***************************************************************************)
\* the selectors of App.tsx:14, 15 and 38-40
Selectors == {"clients", "currentClientId", "clientCards"}

\* what the selector returns on state st, up to reference identity
selectorValue(sel, st, refs) ==
  CASE sel = "clients" -> [ref |-> refs.clients, val |-> ""]
    [] sel = "currentClientId" -> [ref |-> 0, val |-> st.currentClientId]
    [] sel = "clientCards" -> [ref |-> 0, val |-> "filtered"]

\* nextValue !== lastValue, nextValue being a new evaluation of sel
notIdentical(sel, nextValue, lastValue) ==
  sel = "clientCards" \/ nextValue # lastValue

\* part_000:64: the references the merged state holds
refsAfter(refs, patch) ==
  [clients |-> refs.clients + (IF "clients" \in DOMAIN patch THEN 1 ELSE 0)]

\* part_000:387-393
listener(consumer, st, refs) ==
  LET nextValue == selectorValue(consumer.selector, st, refs)
  IN  IF notIdentical(consumer.selector, nextValue, consumer.lastValue)
      THEN [consumer EXCEPT !.lastValue = nextValue, !.forceUpdate = TRUE]
      ELSE [consumer EXCEPT !.forceUpdate = FALSE]

\* part_000:66: listeners.forEach((l) => l())
notify(patch) ==
  [refs |-> refsAfter(bridge.refs, patch),
   consumers |->
     [l \in DOMAIN bridge.consumers |->
        IF l \in Range(listeners)
        THEN listener(bridge.consumers[l], Merge(globalState, patch),
                      refsAfter(bridge.refs, patch))
        ELSE [bridge.consumers[l] EXCEPT !.forceUpdate = FALSE]]]

\* part_000:60-67.  The state is replaced first; a throwing persistLocal
\* leaves the cache as it was and skips the listeners.  lastApply keeps what
\* the call did: its number, the registry it found, the listeners it invoked
\* in order, the fields its patch carried, and the state and the cache as
\* they were when the listener loop was (or would have been) reached.
updateState(patch) ==
  /\ globalState' = Merge(globalState, patch)
  /\ stored' = IF storageFull THEN stored ELSE persistLocal(Merge(globalState, patch))
  /\ lastApply' = [seq |-> lastApply.seq + 1,
                   write |-> IF storageFull THEN "threw" ELSE "ok",
                   registered |-> listeners,
                   notified |-> IF storageFull THEN <<>> ELSE listeners,
                   fields |-> DOMAIN patch,
                   seenState |-> Merge(globalState, patch),
                   seenCache |-> IF storageFull THEN stored
                                 ELSE persistLocal(Merge(globalState, patch))]
  /\ bridge' = IF storageFull
               THEN [bridge EXCEPT !.refs = refsAfter(bridge.refs, patch)]
               ELSE notify(patch)

\* an error leaves an async action as a rejected promise, a plain function
\* as an exception
Surface(how) == surfaced' = surfaced \cup {how}

(***************************************************************************)
(* What an earlier session may have left behind: nothing, or one client    *)
(* with one card, both created remotely (their ids are the remote store's) *)
(* and written to the cache by that session's updateState.                 *)
(***************************************************************************)
SeedClientRow == [id |-> "c0", name |-> "Ana", created_at |-> "srv"]
SeedCardRow == [id |-> "k0", title |-> "Novo Post", client_id |-> "c0"]

SeedCache ==
  [kind |-> "json",
   value |-> [clients |-> <<dbClientToApp(SeedClientRow)>>,
              cards |-> <<dbCardToApp(SeedCardRow)>>,
              dailyNotes |-> <<>>]]

Caches == {[kind |-> "absent"], SeedCache}

\* part_000:39-47
StoreInit ==
  /\ stored \in Caches
  /\ storageFull = FALSE
  /\ globalState = [currentClientId |-> Null, isLoading |-> FALSE]
                     @@ getSavedState(stored)
  /\ listeners = <<>>
  /\ lastApply = [seq |-> 0, write |-> "none", registered |-> <<>>, notified |-> <<>>,
                  fields |-> {},
                  seenState |-> globalState, seenCache |-> stored]
  /\ bridge = [refs |-> [clients |-> 0],
               consumers |-> <<>>]
  /\ surfaced = {}
  /\ supabase \in BOOLEAN
  /\ db = IF supabase /\ stored = SeedCache
          THEN [clients |-> {SeedClientRow}, cards |-> {SeedCardRow}]
          ELSE [clients |-> {}, cards |-> {}]
  /\ calls = {}
  /\ nextUuid = 0
  /\ nextRow = 0
  /\ localOnly = [currentClientId |-> Null, isLoading |-> FALSE]
                   @@ getSavedState(stored)
  /\ steps = 0

Init == StoreInit /\ fn = [pc |-> "idle"]

ClientIds(st) == {st.clients[i].id : i \in DOMAIN st.clients}
CardIds(st) == {st.cards[i].id : i \in DOMAIN st.cards}

remoteVars == <<supabase, db, calls, nextRow>>

\* every variable but the twin run's
storeVars == <<globalState, stored, storageFull, listeners, lastApply, bridge, surfaced,
               supabase, db, calls, nextUuid, nextRow>>

(***************************************************************************)
(* Subscription Bridge: the effect of useStore that registers the listener *)
(* and its cleanup (part_000:386-399).                                     *)
(***************************************************************************)
\* part_000:377-380: the component renders, the selector is evaluated and
\* its value cached; the effect that registers the listener runs later
useStore(l, selector) ==
  /\ l \notin DOMAIN bridge.consumers
  /\ bridge' =
       [bridge EXCEPT !.consumers =
          [k \in DOMAIN bridge.consumers \cup {l} |->
             IF k = l
             THEN [selector |-> selector, forceUpdate |-> FALSE,
                   lastValue |-> selectorValue(selector, globalState, bridge.refs)]
             ELSE bridge.consumers[k]]]
  /\ UNCHANGED <<globalState, stored, storageFull, listeners, lastApply, surfaced,
                 remoteVars, nextUuid, fn>>

\* part_000:386-395
subscribe(l) ==
  /\ l \in DOMAIN bridge.consumers
  /\ l \notin Range(listeners)
  /\ listeners' = Append(listeners, l)
  /\ UNCHANGED <<globalState, stored, storageFull, lastApply, bridge, surfaced,
                 remoteVars, nextUuid, fn>>

\* part_000:396-398: the component unmounts
unsubscribe(l) ==
  /\ l \in Range(listeners)
  /\ listeners' = SelectSeq(listeners, LAMBDA x : x # l)
  /\ bridge' = [bridge EXCEPT !.consumers =
                  [k \in DOMAIN bridge.consumers \ {l} |-> bridge.consumers[k]]]
  /\ UNCHANGED <<globalState, stored, storageFull, lastApply, surfaced, remoteVars,
                 nextUuid, fn>>

(***************************************************************************)
(* Mutation Actions.  Each action is given as the patch its optimistic     *)
(* phase applies (a function of the previous state, as in the code) and    *)
(* the step that applies it and issues the remote call.                    *)
(***************************************************************************)
\* part_000:181-183
setCurrentClientIdPatch(id) == [currentClientId |-> id]

setCurrentClientId(id) ==
  /\ updateState(setCurrentClientIdPatch(id))
  /\ IF storageFull THEN Surface("threw") ELSE UNCHANGED surfaced
  /\ UNCHANGED <<storageFull, listeners, remoteVars, nextUuid, fn>>

\* Issuing a remote call: the request leaves when the action reaches its await
Issue(call) == calls' = calls \cup {call}

\* part_000:219-225
tempClientOf(clientData, id) ==
  [id |-> id, createdAt |-> NowISO] @@ normalizeClient(clientData)

\* part_000:227-230
addClientPatch(prev, tempClient) ==
  [clients |-> Append(prev.clients, tempClient),
   currentClientId |-> tempClient.id]

\* part_000:234-238
insertClientCall(clientData, id) ==
  [op |-> "insertClient", phase |-> "sent", temp |-> id,
   payload |-> appClientToDbInsert(normalizeClient(clientData))]

\* part_000:217-232
addClient(clientData) ==
  /\ updateState(addClientPatch(globalState, tempClientOf(clientData, uuid)))
  /\ nextUuid' = nextUuid + 1
  /\ IF storageFull THEN Surface("rejected") /\ UNCHANGED calls
     ELSE /\ UNCHANGED surfaced
          /\ IF supabase THEN Issue(insertClientCall(clientData, uuid))
             ELSE UNCHANGED calls
  /\ UNCHANGED <<storageFull, listeners, supabase, db, nextRow, fn>>

\* part_000:245-250
addClientReconcilePatch(prev, tempId, saved) ==
  [clients |-> [i \in DOMAIN prev.clients |->
                  IF prev.clients[i].id = tempId THEN saved ELSE prev.clients[i]],
   currentClientId |-> saved.id]

\* part_000:259-263
updateClientPatch(prev, id, updates) ==
  [clients |-> [i \in DOMAIN prev.clients |->
                  IF prev.clients[i].id = id
                  THEN normalizeClient(updates) @@ prev.clients[i]
                  ELSE prev.clients[i]]]

\* part_000:255-270
updateClient(id, updates) ==
  /\ updateState(updateClientPatch(globalState, id, updates))
  /\ IF storageFull THEN Surface("rejected") /\ UNCHANGED calls
     ELSE /\ UNCHANGED surfaced
          /\ IF supabase
             THEN Issue([op |-> "updateClient", phase |-> "sent", id |-> id,
                         payload |-> appClientToDbUpdate(normalizeClient(updates))])
             ELSE UNCHANGED calls
  /\ UNCHANGED <<storageFull, listeners, supabase, db, nextRow, nextUuid, fn>>

\* a deleteClient that forgets the selection
deleteClientPatchKeepsSelection(prev, id) ==
  [clients |-> SelectSeq(prev.clients, LAMBDA c : c.id # id),
   cards |-> SelectSeq(prev.cards, LAMBDA c : c.clientId # id)]

\* part_000:276-280
deleteClientPatch(prev, id) ==
  [clients |-> SelectSeq(prev.clients, LAMBDA c : c.id # id),
   cards |-> SelectSeq(prev.cards, LAMBDA c : c.clientId # id),
   currentClientId |-> IF prev.currentClientId = id THEN Null
                       ELSE prev.currentClientId]

\* part_000:275-284
deleteClient(id) ==
  /\ updateState(deleteClientPatch(globalState, id))
  /\ IF storageFull THEN Surface("rejected") /\ UNCHANGED calls
     ELSE /\ UNCHANGED surfaced
          /\ IF supabase
             THEN Issue([op |-> "deleteClient", phase |-> "sent", id |-> id])
             ELSE UNCHANGED calls
  /\ UNCHANGED <<storageFull, listeners, supabase, db, nextRow, nextUuid, fn>>

\* part_000:289-306: the defaults, then ...cardData over them
newCardOf(cardData, id) ==
  cardData @@
  [id |-> id,
   clientId |-> OrElse(cardData, "clientId", ""),
   dateISO |-> OrElse(cardData, "dateISO", ""),
   titulo |-> OrElse(cardData, "titulo", "Novo Post"),
   tipo |-> OrElse(cardData, "tipo", "Post"),
   pilar |-> OrElse(cardData, "pilar", "Geral"),
   status |-> OrElse(cardData, "status", "A Fazer"),
   copy |-> "", legenda |-> "", notas |-> "",
   links |-> <<>>, checklist |-> <<>>, tags |-> <<>>,
   isBacklog |-> Truthy(cardData, "isBacklog"),
   isFavorite |-> FALSE]

\* part_000:308, 367
appendCardPatch(prev, newCard) == [cards |-> Append(prev.cards, newCard)]

\* part_000:288-318
addCard(cardData) ==
  /\ updateState(appendCardPatch(globalState, newCardOf(cardData, uuid)))
  /\ nextUuid' = nextUuid + 1
  /\ IF storageFull THEN Surface("rejected") /\ UNCHANGED calls
     ELSE /\ UNCHANGED surfaced
          /\ IF supabase /\ newCardOf(cardData, uuid).clientId # ""
             THEN Issue([op |-> "insertCard", phase |-> "sent",
                         temp |-> newCardOf(cardData, uuid).id,
                         payload |-> appCardToDbInsert(newCardOf(cardData, uuid))])
             ELSE UNCHANGED calls
  /\ UNCHANGED <<storageFull, listeners, supabase, db, nextRow, fn>>

\* part_000:327-329
addCardReconcilePatch(prev, tempId, saved) ==
  [cards |-> [i \in DOMAIN prev.cards |->
                IF prev.cards[i].id = tempId
                THEN [id |-> saved.id] @@ prev.cards[i]
                ELSE prev.cards[i]]]

\* an update that puts the updated card after the others
updateCardPatchMovesLast(prev, id, updates) ==
  [cards |-> SelectSeq(prev.cards, LAMBDA c : c.id # id)
               \o [i \in DOMAIN SelectSeq(prev.cards, LAMBDA c : c.id = id) |->
                     updates @@ SelectSeq(prev.cards, LAMBDA c : c.id = id)[i]]]

\* part_000:335-337
updateCardPatch(prev, id, updates) ==
  [cards |-> [i \in DOMAIN prev.cards |->
                IF prev.cards[i].id = id THEN updates @@ prev.cards[i]
                ELSE prev.cards[i]]]

\* part_000:334-344
updateCard(id, updates) ==
  /\ updateState(updateCardPatch(globalState, id, updates))
  /\ IF storageFull THEN Surface("rejected") /\ UNCHANGED calls
     ELSE /\ UNCHANGED surfaced
          /\ IF supabase /\ DOMAIN appCardToDbUpdate(updates) # {}
             THEN Issue([op |-> "updateCard", phase |-> "sent", id |-> id,
                         payload |-> appCardToDbUpdate(updates)])
             ELSE UNCHANGED calls
  /\ UNCHANGED <<storageFull, listeners, supabase, db, nextRow, nextUuid, fn>>

\* part_000:349
deleteCardPatch(prev, id) ==
  [cards |-> SelectSeq(prev.cards, LAMBDA c : c.id # id)]

\* part_000:348-353
deleteCard(id) ==
  /\ updateState(deleteCardPatch(globalState, id))
  /\ IF storageFull THEN Surface("rejected") /\ UNCHANGED calls
     ELSE /\ UNCHANGED surfaced
          /\ IF supabase
             THEN Issue([op |-> "deleteCard", phase |-> "sent", id |-> id])
             ELSE UNCHANGED calls
  /\ UNCHANGED <<storageFull, listeners, supabase, db, nextRow, nextUuid, fn>>

CopySuffix == " (Cópia)"

\* part_000:358: globalState.cards.find((c) => c.id === id)
findCard(st, id) ==
  LET hits == {i \in DOMAIN st.cards : st.cards[i].id = id}
  IN  IF hits = {} THEN <<>>
      ELSE <<st.cards[CHOOSE i \in hits : \A j \in hits : i <= j]>>

\* a duplicate that keeps the id it copied
duplicateOfSameId(card, id) ==
  [titulo |-> card.titulo \o CopySuffix] @@ card

\* part_000:361-365
duplicateOf(card, id) ==
  [id |-> id, titulo |-> card.titulo \o CopySuffix] @@ card

\* part_000:357-359: no card has the id, the action returns at once
duplicateCardMissing(id) ==
  /\ findCard(globalState, id) = <<>>
  /\ UNCHANGED <<storeVars, fn>>

\* part_000:357-372
duplicateCard(id) ==
  /\ findCard(globalState, id) # <<>>
  /\ updateState(appendCardPatch(globalState,
                   duplicateOf(findCard(globalState, id)[1], uuid)))
  /\ nextUuid' = nextUuid + 1
  /\ IF storageFull THEN Surface("rejected") /\ UNCHANGED calls
     ELSE /\ UNCHANGED surfaced
          /\ IF supabase /\ findCard(globalState, id)[1].clientId # ""
             THEN Issue([op |-> "duplicateInsert", phase |-> "sent", temp |-> uuid,
                         payload |-> appCardToDbInsert(
                            duplicateOf(findCard(globalState, id)[1], uuid))])
             ELSE UNCHANGED calls
  /\ UNCHANGED <<storageFull, listeners, supabase, db, nextRow, fn>>

\* part_000:206-210
loadPatch(clientsRaw, cardsRaw) ==
  [clients |-> [i \in DOMAIN clientsRaw |-> dbClientToApp(clientsRaw[i])],
   cards |-> [i \in DOMAIN cardsRaw |-> dbCardToApp(cardsRaw[i])],
   isLoading |-> FALSE]

\* part_000:186-189
loadInitialDataLocal ==
  /\ ~supabase
  /\ UNCHANGED <<storeVars, fn>>

\* part_000:191-197: the flag is raised outside the try block
loadInitialData ==
  /\ supabase
  /\ updateState([isLoading |-> TRUE])
  /\ IF storageFull THEN Surface("rejected") /\ UNCHANGED calls
     ELSE /\ UNCHANGED surfaced
          /\ Issue([op |-> "selectClients", phase |-> "sent"])
  /\ UNCHANGED <<storageFull, listeners, supabase, db, nextRow, nextUuid, fn>>

(***************************************************************************)
(* Remote Adapter: what the remote store does with a call.  An outcome is  *)
(* "ok", "error" (the call returns { error }) or "thrown" (the call        *)
(* rejects); a call that does not succeed leaves the tables as they were.  *)
(***************************************************************************)
Outcomes == {"ok", "error", "thrown"}

\* order('name', { ascending: true }) over the names the model uses
NameOrder == <<"", "Ana", "Bia", "Caio">>
NameRank(n) == CHOOSE i \in DOMAIN NameOrder : NameOrder[i] = n

Perms(S) ==
  {f \in [1..Cardinality(S) -> S] : \A i, j \in 1..Cardinality(S) : f[i] = f[j] => i = j}

SortedByName(rows) ==
  {f \in Perms(rows) :
     \A i, j \in DOMAIN f : i < j => NameRank(f[i].name) <= NameRank(f[j].name)}

insertedRow(payload) ==
  [id |-> RowIdNames[nextRow + 1], created_at |-> "srv"] @@ payload

dbInsert(table, payload) ==
  /\ db' = [db EXCEPT ![table] = @ \cup {insertedRow(payload)}]
  /\ nextRow' = nextRow + 1

dbUpdate(table, id, payload) ==
  /\ db' = [db EXCEPT ![table] = {IF r.id = id THEN payload @@ r ELSE r : r \in @}]
  /\ UNCHANGED nextRow

dbDelete(table, id) ==
  /\ db' = [db EXCEPT ![table] = {r \in @ : r.id # id}]
  /\ UNCHANGED nextRow

Reply(c, result) ==
  calls' = (calls \ {c}) \cup {[result |-> result] @@ [c EXCEPT !.phase = "replied"]}

\* the remote store handles an insert-returning-row or a select
Process(c, outcome) ==
  /\ c \in calls
  /\ c.phase = "sent"
  /\ c.op \in {"insertClient", "insertCard", "selectClients", "selectCards"}
  /\ CASE outcome # "ok" ->
            Reply(c, [kind |-> outcome]) /\ UNCHANGED <<db, nextRow>>
       [] outcome = "ok" /\ c.op = "insertClient" ->
            /\ dbInsert("clients", c.payload)
            /\ Reply(c, [kind |-> "ok", data |-> insertedRow(c.payload)])
       [] outcome = "ok" /\ c.op = "insertCard" ->
            /\ dbInsert("cards", c.payload)
            /\ Reply(c, [kind |-> "ok", data |-> insertedRow(c.payload)])
       [] outcome = "ok" /\ c.op = "selectClients" ->
            /\ \E rows \in SortedByName(db.clients) :
                 Reply(c, [kind |-> "ok", data |-> rows])
            /\ UNCHANGED <<db, nextRow>>
       [] outcome = "ok" /\ c.op = "selectCards" ->
            /\ \E rows \in Perms(db.cards) :
                 Reply(c, [kind |-> "ok", data |-> rows])
            /\ UNCHANGED <<db, nextRow>>
  /\ UNCHANGED <<globalState, stored, storageFull, listeners, lastApply, bridge,
                 surfaced, supabase, nextUuid, fn>>

(***************************************************************************)
(* Continuations: what an action does when its awaited call settles.       *)
(***************************************************************************)
\* an error branch that rolls the optimistic entity back
afterCreateErrorRollback(st, c) ==
  [clients |-> SelectSeq(st.clients, LAMBDA x : x.id # c.temp),
   cards |-> SelectSeq(st.cards, LAMBDA x : x.id # c.temp)] @@ st

\* part_000:240-243, 320-323: on { error } the action logs and returns
afterCreateError(st, c) == st

\* part_000:234-252, the part after the await
addClientSettled(c) ==
  /\ c.op = "insertClient"
  /\ CASE c.result.kind = "thrown" ->
            Surface("rejected") /\ UNCHANGED <<globalState, stored, lastApply, bridge>>
       [] c.result.kind = "error" ->
            /\ globalState' = afterCreateError(globalState, c)
            /\ UNCHANGED <<stored, lastApply, bridge, surfaced>>
       [] c.result.kind = "ok" ->
            /\ updateState(addClientReconcilePatch(globalState, c.temp,
                                                   dbClientToApp(c.result.data)))
            /\ IF storageFull THEN Surface("rejected") ELSE UNCHANGED surfaced
  /\ calls' = calls \ {c}

\* part_000:314-331, the part after the await
addCardSettled(c) ==
  /\ c.op = "insertCard"
  /\ CASE c.result.kind = "thrown" ->
            Surface("rejected") /\ UNCHANGED <<globalState, stored, lastApply, bridge>>
       [] c.result.kind = "error" ->
            /\ globalState' = afterCreateError(globalState, c)
            /\ UNCHANGED <<stored, lastApply, bridge, surfaced>>
       [] c.result.kind = "ok" ->
            /\ updateState(addCardReconcilePatch(globalState, c.temp,
                                                 dbCardToApp(c.result.data)))
            /\ IF storageFull THEN Surface("rejected") ELSE UNCHANGED surfaced
  /\ calls' = calls \ {c}

\* a catch block that gives up the local collections
loadCatchClears ==
  /\ updateState([clients |-> <<>>, cards |-> <<>>, isLoading |-> FALSE])
  /\ IF storageFull THEN Surface("rejected") ELSE UNCHANGED surfaced

\* part_000:211-214
loadCatch ==
  /\ updateState([isLoading |-> FALSE])
  /\ IF storageFull THEN Surface("rejected") ELSE UNCHANGED surfaced

\* part_000:194-199: the clients select has settled, the cards select leaves
loadClientsSettled(c) ==
  /\ c.op = "selectClients"
  /\ IF c.result.kind = "thrown"
     THEN loadCatch /\ calls' = calls \ {c}
     ELSE /\ calls' = (calls \ {c}) \cup
                 {[op |-> "selectCards", phase |-> "sent", first |-> c.result]}
          /\ UNCHANGED <<globalState, stored, lastApply, bridge, surfaced>>

\* part_000:199-214.  A throwing write in the try block is caught, and the
\* write of the catch block throws in turn.
loadCardsSettled(c) ==
  /\ c.op = "selectCards"
  /\ IF c.result.kind = "ok" /\ c.first.kind = "ok"
     THEN /\ updateState(loadPatch(c.first.data, c.result.data))
          /\ IF storageFull THEN Surface("rejected") ELSE UNCHANGED surfaced
     ELSE loadCatch
  /\ calls' = calls \ {c}

Deliver(c) ==
  /\ c \in calls
  /\ c.phase = "replied"
  /\ \/ addClientSettled(c)
     \/ addCardSettled(c)
     \/ loadClientsSettled(c)
     \/ loadCardsSettled(c)
  /\ UNCHANGED <<storageFull, listeners, supabase, db, nextRow, nextUuid, fn>>

\* an error branch that drops the entity the failed call was about
afterWriteErrorDrops(st, c) ==
  IF Has(c, "id")
  THEN [clients |-> SelectSeq(st.clients, LAMBDA x : x.id # c.id),
        cards |-> SelectSeq(st.cards, LAMBDA x : x.id # c.id)] @@ st
  ELSE st

\* part_000:272, 285, 345, 354, 373: on { error } the action logs and returns
afterWriteError(st, c) == st

\* An update, a delete or the insert of a duplicate: the remote store
\* handles the call and the action, which reads nothing of the reply but its
\* error, returns.
Resolve(c, outcome) ==
  /\ c \in calls
  /\ c.op \in {"updateClient", "deleteClient", "updateCard", "deleteCard",
               "duplicateInsert"}
  /\ CASE outcome # "ok" -> UNCHANGED <<db, nextRow>>
       [] outcome = "ok" /\ c.op = "updateClient" -> dbUpdate("clients", c.id, c.payload)
       [] outcome = "ok" /\ c.op = "deleteClient" -> dbDelete("clients", c.id)
       [] outcome = "ok" /\ c.op = "updateCard" -> dbUpdate("cards", c.id, c.payload)
       [] outcome = "ok" /\ c.op = "deleteCard" -> dbDelete("cards", c.id)
       [] outcome = "ok" /\ c.op = "duplicateInsert" -> dbInsert("cards", c.payload)
  /\ globalState' = IF outcome = "error" THEN afterWriteError(globalState, c)
                    ELSE globalState
  /\ IF outcome = "thrown" THEN Surface("rejected") ELSE UNCHANGED surfaced
  /\ calls' = calls \ {c}
  /\ UNCHANGED <<stored, storageFull, listeners, lastApply, bridge, supabase, nextUuid, fn>>

(***************************************************************************)
(* The environment: the browser's storage quota runs out.                  *)
(***************************************************************************)
quotaExceeded ==
  /\ ~storageFull
  /\ storageFull' = TRUE
  /\ UNCHANGED <<globalState, stored, listeners, lastApply, bridge, surfaced, remoteVars,
                 nextUuid, fn>>

(***************************************************************************)
(* The arguments the consumer passes.                                      *)
(***************************************************************************)
KnownIds == {"", "c0", "k0"} \cup IssuedUuids \cup IssuedRowIds

SelectArgs == {Null} \cup ClientIds(globalState)

ClientInputs == {[name |-> "Ana"], [nome |-> " Bia "]}

ClientUpdates == {[nome |-> "Caio"], [instagram |-> "@caio"]}

\* a partial card: a title, the client it is for, an id of the caller's
CardInputs ==
  {[titulo |-> "Ideia"]}
    \cup {[clientId |-> id] : id \in ClientIds(globalState)}
    \cup {[id |-> id] : id \in {""} \cup CardIds(globalState)}
    \cup {[id |-> id, clientId |-> cid] :
            id \in CardIds(globalState), cid \in ClientIds(globalState)}

CardUpdates == {[titulo |-> "Editado"], [status |-> "Feito"]}

Listeners == {1, 2}

(***************************************************************************)
(* The twin run: the same calls made of a store whose supabase is null,    *)
(* where every action stops after its optimistic phase (part_000:232, 265, *)
(* 282, 310, 339, 351, 369) and loadInitialData returns at once (186-189). *)
(***************************************************************************)
Twin(on, patch) ==
  IF on THEN localOnly' = Merge(localOnly, patch) ELSE UNCHANGED localOnly

TwinDuplicate(on, id) ==
  IF on /\ findCard(localOnly, id) # <<>>
  THEN localOnly' = Merge(localOnly,
         appendCardPatch(localOnly, duplicateOf(findCard(localOnly, id)[1], uuid)))
  ELSE UNCHANGED localOnly

Tick == steps < MaxSteps /\ steps' = steps + 1

Actions(twin) ==
  \/ \E id \in SelectArgs :
       setCurrentClientId(id) /\ Twin(twin, setCurrentClientIdPatch(id)) /\ Tick
  \/ \E d \in ClientInputs :
       /\ addClient(d)
       /\ Twin(twin, addClientPatch(localOnly, tempClientOf(d, uuid)))
       /\ Tick
  \/ \E id \in ClientIds(globalState), u \in ClientUpdates :
       updateClient(id, u) /\ Twin(twin, updateClientPatch(localOnly, id, u)) /\ Tick
  \/ \E id \in KnownIds :
       deleteClient(id) /\ Twin(twin, deleteClientPatch(localOnly, id)) /\ Tick
  \/ \E d \in CardInputs :
       /\ addCard(d)
       /\ Twin(twin, appendCardPatch(localOnly, newCardOf(d, uuid)))
       /\ Tick
  \/ \E id \in CardIds(globalState), u \in CardUpdates :
       updateCard(id, u) /\ Twin(twin, updateCardPatch(localOnly, id, u)) /\ Tick
  \/ \E id \in CardIds(globalState) :
       deleteCard(id) /\ Twin(twin, deleteCardPatch(localOnly, id)) /\ Tick
  \/ \E id \in KnownIds :
       duplicateCard(id) /\ TwinDuplicate(twin, id) /\ Tick
  \/ \E id \in KnownIds :
       duplicateCardMissing(id) /\ TwinDuplicate(twin, id) /\ Tick
  \/ loadInitialData /\ UNCHANGED localOnly /\ Tick

Remote(outcomes) ==
  \/ \E c \in calls, o \in outcomes : Process(c, o) /\ UNCHANGED <<localOnly, steps>>
  \/ \E c \in calls : Deliver(c) /\ UNCHANGED <<localOnly, steps>>
  \/ \E c \in calls, o \in outcomes : Resolve(c, o) /\ UNCHANGED <<localOnly, steps>>

\* The effect that registers the listener is run by React after the render:
\* it is no call of the consumer's.  A component that mounts is given the
\* first name no mounted component has.
Bridge ==
  \/ \E l \in Listeners, sel \in Selectors :
       /\ \A k \in Listeners : k < l => k \in DOMAIN bridge.consumers
       /\ useStore(l, sel) /\ UNCHANGED localOnly /\ Tick
  \/ \E l \in Listeners : subscribe(l) /\ UNCHANGED <<localOnly, steps>>
  \/ \E l \in Listeners : unsubscribe(l) /\ UNCHANGED localOnly /\ Tick

Environment ==
  quotaExceeded /\ UNCHANGED localOnly /\ Tick

Next ==
  \/ Actions(FALSE)
  \/ loadInitialDataLocal /\ UNCHANGED localOnly /\ Tick
  \/ Remote(Outcomes)
  \/ Bridge
  \/ Environment

Spec == Init /\ [][Next]_vars

(***************************************************************************)
(* The run in which the remote store is configured and every remote call   *)
(* fails, side by side with the twin run in which it is not configured.    *)
(***************************************************************************)
InitFailing == Init /\ supabase

NextFailing ==
  \/ Actions(TRUE)
  \/ Remote({"error", "thrown"})
  \/ Environment

SpecFailing == InitFailing /\ [][NextFailing]_vars

(***************************************************************************)
(* The run in which the remote store is configured, every remote call      *)
(* succeeds and the cache can always be written, under create, update and  *)
(* delete actions.                                                         *)
(***************************************************************************)
InitReconciling == Init /\ supabase

CreateUpdateDelete ==
  \/ \E d \in ClientInputs : addClient(d)
  \/ \E id \in ClientIds(globalState), u \in ClientUpdates : updateClient(id, u)
  \/ \E id \in ClientIds(globalState) : deleteClient(id)
  \/ \E d \in CardInputs : addCard(d)
  \/ \E id \in CardIds(globalState), u \in CardUpdates : updateCard(id, u)
  \/ \E id \in CardIds(globalState) : deleteCard(id)

NextReconciling ==
  \/ CreateUpdateDelete /\ UNCHANGED localOnly /\ Tick
  \/ Remote({"ok"})

SpecReconciling == InitReconciling /\ [][NextReconciling]_vars

(***************************************************************************)
(* The Subscription Bridge on its own: components that render, subscribe   *)
(* and unmount around applies that carry clients, cards or the selection,  *)
(* with no remote store and a cache that can always be written.            *)
(***************************************************************************)
InitBridge == Init /\ ~supabase /\ stored = SeedCache

TickBridge == steps < MaxBridgeSteps /\ steps' = steps + 1

NextBridge ==
  \/ \E l \in Listeners, sel \in Selectors :
       /\ \A k \in Listeners : k < l => k \in DOMAIN bridge.consumers
       /\ useStore(l, sel) /\ UNCHANGED localOnly /\ TickBridge
  \/ \E l \in Listeners : subscribe(l) /\ UNCHANGED <<localOnly, steps>>
  \/ \E l \in Listeners : unsubscribe(l) /\ UNCHANGED localOnly /\ TickBridge
  \/ \E id \in SelectArgs : setCurrentClientId(id) /\ UNCHANGED localOnly /\ TickBridge
  \/ addClient([name |-> "Ana"]) /\ UNCHANGED localOnly /\ TickBridge
  \/ addCard([titulo |-> "Ideia"]) /\ UNCHANGED localOnly /\ TickBridge

SpecBridge == InitBridge /\ [][NextBridge]_vars

(***************************************************************************)
(* Updates of the entities an earlier session left, issued while earlier   *)
(* updates of the same entity are in flight, the remote store handling the *)
(* calls in any order and with any outcome.                                *)
(***************************************************************************)
InitUpdates == Init /\ supabase /\ stored = SeedCache

CardTitleUpdates == {[titulo |-> "Editado"], [titulo |-> "Final"]}

NextUpdates ==
  \/ \E id \in ClientIds(globalState), u \in ClientUpdates :
       updateClient(id, u) /\ UNCHANGED localOnly /\ Tick
  \/ \E id \in CardIds(globalState), u \in CardTitleUpdates \cup CardUpdates :
       updateCard(id, u) /\ UNCHANGED localOnly /\ Tick
  \/ \E c \in calls, o \in Outcomes : Resolve(c, o) /\ UNCHANGED <<localOnly, steps>>

SpecUpdates == InitUpdates /\ [][NextUpdates]_vars

(***************************************************************************)
(* The Normalizer's functions, applied to rows and inputs of every shape.  *)
(***************************************************************************)
NameValues == {"", " ", "Ana", " Ana ", "Bia "}

\* objects carrying any of the two name aliases and a profile attribute
ClientShapes ==
  {Pick(o, fs) :
     o \in [name : NameValues, nome : NameValues, instagram : {"@ana"}],
     fs \in SUBSET {"name", "nome", "instagram"}}

\* remote card rows, which may carry the in-memory aliases as extra columns
CardRows ==
  {[id |-> "k1"] @@ Pick(o, fs) :
     o \in [title : {"", "Post A"}, client_id : {"c1"},
            titulo : {"Post A", "Post B"}, clientId : {"c2"},
            status : {"Feito"}, isBacklog : BOOLEAN],
     fs \in SUBSET {"title", "client_id", "titulo", "clientId", "status", "isBacklog"}}

\* what localStorage may hold under STORAGE_KEY when the module is loaded
StartupCaches ==
  {[kind |-> "absent"], [kind |-> "garbage"], [kind |-> "null"], SeedCache}
    \cup {[kind |-> "json", value |-> Pick(SeedCache.value, fs)] :
            fs \in SUBSET {"clients", "cards", "dailyNotes"}}

InitNormalizer ==
  /\ StoreInit
  /\ ~supabase
  /\ stored.kind = "absent"
  /\ \/ \E o \in ClientShapes : fn = [pc |-> "client", arg |-> o]
     \/ \E r \in CardRows : fn = [pc |-> "row", arg |-> r]
     \/ \E c \in StartupCaches : fn = [pc |-> "cache", arg |-> c]

\* part_000:39-45: the module's top-level code
applyGetSavedState ==
  /\ fn.pc = "cache"
  /\ fn' = [pc |-> "started", arg |-> fn.arg,
            res |-> [currentClientId |-> Null, isLoading |-> FALSE]
                      @@ getSavedState(fn.arg)]

\* part_000:228, 308: the first addClient or addCard spreads prev.clients or
\* prev.cards, which throws a TypeError when the field is undefined
applyFirstAction ==
  /\ fn.pc = "started"
  /\ \E f \in {"clients", "cards"} :
       fn' = [pc |-> "ran", arg |-> fn.arg, res |-> fn.res, spread |-> f,
              outcome |-> IF Has(fn.res, f) THEN "ok" ELSE "TypeError"]

applyNormalizeClient ==
  /\ fn.pc = "client"
  /\ fn' = [pc |-> "normalized", arg |-> fn.arg, res |-> normalizeClient(fn.arg)]

applyDbClientToApp ==
  /\ fn.pc = "client"
  /\ fn' = [pc |-> "mapped", arg |-> fn.arg,
            res |-> dbClientToApp([id |-> "c1"] @@ fn.arg)]

applyDbCardToApp ==
  /\ fn.pc = "row"
  /\ fn' = [pc |-> "card", arg |-> fn.arg, mid |-> dbCardToApp(fn.arg)]

applyAppCardToDbUpdate ==
  /\ fn.pc = "card"
  /\ fn' = [pc |-> "payload", arg |-> fn.arg, mid |-> fn.mid,
            res |-> appCardToDbUpdate(fn.mid)]

NextNormalizer ==
  /\ \/ applyNormalizeClient
     \/ applyDbClientToApp
     \/ applyDbCardToApp
     \/ applyAppCardToDbUpdate
     \/ applyGetSavedState
     \/ applyFirstAction
  /\ UNCHANGED <<storeVars, localOnly, steps>>

SpecNormalizer == InitNormalizer /\ [][NextNormalizer]_vars

(***************************************************************************)
(*                               Properties                                *)
(***************************************************************************)
clients == globalState.clients
cards == globalState.cards
currentClientId == globalState.currentClientId

Last(seq) == seq[Len(seq)]

\* what C2, C8 call the local state
Local(st) ==
  [clients |-> st.clients, cards |-> st.cards, currentClientId |-> st.currentClientId]

HasClient(id) == \E i \in DOMAIN clients : clients[i].id = id
HasCard(id) == \E i \in DOMAIN cards : cards[i].id = id

\* the create call of the entity with temporary id t is still unanswered
CreatePending(op, t) ==
  supabase /\ ~storageFull => \E c \in calls' : c.op = op /\ c.temp = t /\ c.phase = "sent"

(***************************************************************************)
(* C1 -- optimistic visibility.  In the state addClient or addCard leaves  *)
(* when it reaches its await, the collection is the old one with the new   *)
(* entity appended, the new entity's id is not empty, and the remote       *)
(* create call (where one is made) has not been answered.                  *)
(***************************************************************************)
C1_OptimisticVisibility ==
  [][/\ \A d \in ClientInputs :
          addClient(d) =>
            /\ globalState'.clients = Append(clients, Last(globalState'.clients))
            /\ Last(globalState'.clients).id # ""
            /\ CreatePending("insertClient", Last(globalState'.clients).id)
     /\ \A d \in CardInputs :
          addCard(d) =>
            /\ globalState'.cards = Append(cards, Last(globalState'.cards))
            /\ Last(globalState'.cards).id # ""
            /\ (Last(globalState'.cards).clientId # "" =>
                  CreatePending("insertCard", Last(globalState'.cards).id))
    ]_vars

(***************************************************************************)
(* C2 -- once every remote call of the failing run has settled, its        *)
(* clients, cards and currentClientId are those of the twin run that has   *)
(* no remote store.                                                        *)
(***************************************************************************)
C2_FailingRunEqualsLocalOnly ==
  calls = {} => Local(globalState) = Local(localOnly)

\* a create call was made for client u1, it threw, and u1 is in both runs
C2_Witness ==
  /\ supabase /\ calls = {} /\ ~storageFull
  /\ "rejected" \in surfaced
  /\ HasClient("u1")
  /\ Local(globalState) = Local(localOnly)

(***************************************************************************)
(* C3 -- deleteClient(id) removes exactly the clients whose id is id and   *)
(* the cards whose clientId is id, and changes neither collection when no  *)
(* client has that id.                                                     *)
(***************************************************************************)
C3_DeleteClientExactAndIdempotent ==
  [][\A id \in KnownIds :
       deleteClient(id) =>
         /\ globalState'.clients = SelectSeq(clients, LAMBDA c : c.id # id)
         /\ globalState'.cards = SelectSeq(cards, LAMBDA c : c.clientId # id)
         /\ (~HasClient(id) =>
               globalState'.clients = clients /\ globalState'.cards = cards)
    ]_vars

(***************************************************************************)
(* C4 -- the step of deleteClient(id) that removes the client sets         *)
(* currentClientId to null if it was id and leaves it as it was otherwise. *)
(***************************************************************************)
C4_DeleteClientSelection ==
  [][\A id \in KnownIds :
       deleteClient(id) =>
         /\ (currentClientId = id => globalState'.currentClientId = Null)
         /\ (currentClientId # id => globalState'.currentClientId = currentClientId)
         /\ ~(\E i \in DOMAIN globalState'.clients : globalState'.clients[i].id = id)
    ]_vars

\* client u1 was added, which selected it, and deleteClient("u1") has run
C4_Witness ==
  /\ nextUuid = 1 /\ steps = 2
  /\ ~HasClient("u1")
  /\ currentClientId = Null
  /\ \E c \in calls : c.op = "deleteClient" /\ c.id = "u1"

(***************************************************************************)
(* C5 -- duplicateCard(id), when a card has that id, appends one card      *)
(* whose id no card had, whose titulo is the original's followed by the    *)
(* copy suffix and whose other fields are the original's, and changes no   *)
(* card that was there; when no card has the id it changes nothing and     *)
(* makes no remote call.                                                   *)
(***************************************************************************)
C5_DuplicateCard ==
  [][\A id \in KnownIds :
       /\ (HasCard(id) /\ duplicateCard(id) =>
            LET original == cards[CHOOSE i \in DOMAIN cards :
                                    /\ cards[i].id = id
                                    /\ \A j \in 1..(i - 1) : cards[j].id # id]
                copy == Last(globalState'.cards)
            IN  /\ globalState'.cards = Append(cards, copy)
                /\ copy.id \notin CardIds(globalState)
                /\ copy.titulo = original.titulo \o " (Cópia)"
                /\ Without(copy, {"id", "titulo"}) = Without(original, {"id", "titulo"}))
       /\ (~HasCard(id) /\ (duplicateCard(id) \/ duplicateCardMissing(id)) =>
            /\ globalState' = globalState
            /\ stored' = stored
            /\ calls' = calls)
    ]_vars

\* the seeded card k0 has been duplicated as u1
C5_Witness ==
  \E i \in DOMAIN cards :
    /\ cards[i].id = "u1"
    /\ cards[i].titulo = "Novo Post (Cópia)"
    /\ cards[i].clientId = "c0"
    /\ HasCard("k0")

(***************************************************************************)
(* C6 -- for every input in which name or nome is set, normalizeClient     *)
(* (and dbClientToApp, which is built on it) returns name = nome = the     *)
(* trimmed value of the alias that was set; when both are present and one  *)
(* of them is empty, that is the value of the other.                       *)
(***************************************************************************)
AliasValues(o) ==
  IF Has(o, "name") /\ Has(o, "nome")
  THEN IF o.name = "" /\ o.nome # "" THEN {o.nome}
       ELSE IF o.nome = "" /\ o.name # "" THEN {o.name}
       ELSE {o.name, o.nome}
  ELSE {o[f] : f \in DOMAIN o \cap {"name", "nome"}}

C6_NormalizedNameIsTheAliasSet ==
  fn.pc \in {"normalized", "mapped"} /\ AliasValues(fn.arg) # {} =>
    /\ fn.res.name = fn.res.nome
    /\ \E v \in AliasValues(fn.arg) : fn.res.name = Trim(v)

(***************************************************************************)
(* C7 -- round trip: for every remote card row that has title and          *)
(* client_id, appCardToDbUpdate(dbCardToApp(row)) has the row's title and  *)
(* client_id, whatever else the row carries.                               *)
(***************************************************************************)
C7_CardRoundTrip ==
  fn.pc = "payload" /\ Has(fn.arg, "title") /\ Has(fn.arg, "client_id") =>
    /\ Has(fn.res, "title") /\ fn.res.title = fn.arg.title
    /\ Has(fn.res, "client_id") /\ fn.res.client_id = fn.arg.client_id

(***************************************************************************)
(* C8 -- when a remote create, update or delete call fails (returns an     *)
(* error or throws), the step in which the action learns of it leaves the  *)
(* state and the cache as they are and issues no further call.             *)
(***************************************************************************)
Failed(c) ==
  \/ /\ c.op \in {"insertClient", "insertCard"}
     /\ c.phase = "replied" /\ c.result.kind # "ok"
     /\ Deliver(c)
  \/ \E o \in {"error", "thrown"} : Resolve(c, o)

C8_FailureLeavesLocalState ==
  [][\A c \in calls :
       Failed(c) =>
         /\ globalState' = globalState
         /\ stored' = stored
         /\ calls' = calls \ {c}
    ]_vars

\* the create call of client u1 was made and has failed: no row was ever
\* inserted, no call is left, and u1 is still there under its temporary id
C8_Witness ==
  /\ supabase /\ ~storageFull /\ calls = {}
  /\ nextRow = 0 /\ db.clients = {}
  /\ nextUuid = 1 /\ steps = 1
  /\ HasClient("u1") /\ currentClientId = "u1"

(***************************************************************************)
(* C9 -- no mutation action surfaces a failure to its caller: no promise   *)
(* an action returned is rejected and no action throws.                    *)
(***************************************************************************)
C9_NoFailureSurfaces ==
  surfaced = {}

(***************************************************************************)
(* C10 -- apply never partially fails: when the cache write throws, the    *)
(* error does not leave updateState and the listeners registered at that   *)
(* moment are all notified.                                                *)
(***************************************************************************)
C10_ApplySwallowsWriteError ==
  lastApply.write = "threw" =>
    /\ surfaced = {}
    /\ lastApply.notified = lastApply.registered

C12_SnapshotEqualsMemory ==
  lastApply.write = "ok" =>
    /\ stored.kind = "json"
    /\ DOMAIN stored.value = {"clients", "cards", "dailyNotes"}
    /\ stored.value.clients = globalState.clients
    /\ stored.value.cards = globalState.cards
    /\ stored.value.dailyNotes = globalState.dailyNotes

\* client u1 was created, reconciled to the server id s1, and the snapshot
\* written by the reconciliation holds it
C12_Witness ==
  /\ lastApply.write = "ok" /\ calls = {}
  /\ HasClient("s1") /\ ~HasClient("u1")
  /\ currentClientId = "s1"
  /\ stored.value.clients = clients

(***************************************************************************)
(* C13 -- a load of which either fetch failed (returned an error or        *)
(* threw) replaces neither collection: the step in which loadInitialData   *)
(* learns of the failure, like the step that started the load, leaves      *)
(* clients, cards and currentClientId as they are.                         *)
(***************************************************************************)
LoadFailed(c) ==
  \/ c.op = "selectClients" /\ c.phase = "replied" /\ c.result.kind = "thrown"
  \/ /\ c.op = "selectCards" /\ c.phase = "replied"
     /\ (c.result.kind # "ok" \/ c.first.kind # "ok")

C13_FailedLoadKeepsLocalState ==
  [][/\ (loadInitialData => Local(globalState') = Local(globalState))
     /\ \A c \in calls :
          LoadFailed(c) /\ Deliver(c) =>
            /\ Local(globalState') = Local(globalState)
            /\ calls' = calls \ {c}
    ]_vars

\* a card was added locally, then a load ran and failed: the latest apply
\* is that of the catch block, and the card, which no remote row stands
\* for, is still there
C13_Witness ==
  /\ supabase /\ calls = {} /\ steps = 2
  /\ lastApply.fields = {"isLoading"} /\ ~lastApply.seenState.isLoading
  /\ HasCard("u1")
  /\ \A r \in db.cards : r.id # "u1"

(***************************************************************************)
(* C14 -- whenever no loadInitialData call is in flight (none of its two   *)
(* selects is pending), isLoading is false.                                *)
(***************************************************************************)
LoadInFlight == \E c \in calls : c.op \in {"selectClients", "selectCards"}

C14_LoadingFlagCleared ==
  ~LoadInFlight => ~globalState.isLoading

(***************************************************************************)
(* C15 -- entities are destroyed only by delete actions: in every step     *)
(* that is not a deleteClient or a deleteCard, each client and each card   *)
(* of the collection is still in it afterwards, under the same id or,      *)
(* when the step is the reconciliation of its create call, under the id    *)
(* the remote store gave it.                                               *)
(***************************************************************************)
\* the id under which the entity of id "id" is found after the step
Successors(op, id) ==
  {id} \cup {c.result.data.id : c \in {x \in calls \ calls' :
                                        /\ x.op = op /\ x.temp = id
                                        /\ x.phase = "replied"
                                        /\ x.result.kind = "ok"}}

DeleteStep ==
  \/ \E id \in KnownIds : deleteClient(id)
  \/ \E id \in CardIds(globalState) : deleteCard(id)

C15_OnlyDeletesRemove ==
  [][DeleteStep \/
       /\ \A i \in DOMAIN clients :
            Successors("insertClient", clients[i].id) \cap ClientIds(globalState') # {}
       /\ \A i \in DOMAIN cards :
            Successors("insertCard", cards[i].id) \cap CardIds(globalState') # {}
    ]_vars

(***************************************************************************)
(* C16 -- eventual reconciliation: when every remote call succeeds and no  *)
(* call is in flight, each local client has a remote clients row of the    *)
(* same id and name, and each local card with a non-empty clientId has a   *)
(* remote cards row of the same id, title and client_id.                   *)
(***************************************************************************)
C16_EventuallyReconciled ==
  calls = {} =>
    /\ \A i \in DOMAIN clients :
         \E r \in db.clients : r.id = clients[i].id /\ r.name = clients[i].name
    /\ \A i \in DOMAIN cards :
         cards[i].clientId # "" =>
           \E r \in db.cards :
             /\ r.id = cards[i].id
             /\ r.title = cards[i].titulo
             /\ r.client_id = cards[i].clientId

(***************************************************************************)
(* C17 -- for every cache content that is absent, unparseable, or          *)
(* parseable but not a record holding clients, cards and dailyNotes, the   *)
(* module starts with clients and cards as empty sequences, and the first  *)
(* action that extends a collection runs.                                  *)
(***************************************************************************)
WellFormedCache(c) ==
  c.kind = "json" /\ {"clients", "cards", "dailyNotes"} \subseteq DOMAIN c.value

C17_MalformedCacheStartsEmpty ==
  fn.pc \in {"started", "ran"} /\ ~WellFormedCache(fn.arg) =>
    /\ Has(fn.res, "clients") /\ fn.res.clients = <<>>
    /\ Has(fn.res, "cards") /\ fn.res.cards = <<>>
    /\ (fn.pc = "ran" => fn.outcome = "ok")

(***************************************************************************)
(* C18 -- Subscription Bridge.  In every step in which updateState         *)
(* notifies, each registered consumer is asked to re-render if and only if *)
(* its selector's value on the new state is not identical to the value it  *)
(* had cached, and it then holds the value of the new state; a step whose  *)
(* patch does not replace what the selector returns (no clients field for  *)
(* the clients selector, the same currentClientId for the currentClientId  *)
(* selector) asks for no re-render of that consumer.                       *)
(***************************************************************************)
Notifies == lastApply'.seq # lastApply.seq /\ lastApply'.write = "ok"

SliceReplaced(sel) ==
  CASE sel = "clients" -> "clients" \in lastApply'.fields
    [] sel = "currentClientId" ->
         globalState'.currentClientId # globalState.currentClientId
    [] sel = "clientCards" -> TRUE

C18_RerenderIffNotIdentical ==
  [][Notifies =>
       \A l \in Range(listeners) :
         LET held == bridge.consumers[l].lastValue
             sel == bridge.consumers[l].selector
             value == selectorValue(sel, globalState', bridge'.refs)
         IN  /\ bridge'.consumers[l].forceUpdate <=> notIdentical(sel, value, held)
             /\ bridge'.consumers[l].lastValue = value
             /\ (~SliceReplaced(sel) => ~bridge'.consumers[l].forceUpdate)
    ]_vars

(***************************************************************************)
(* C19 -- create reconciliation.  When the create call of a card that is   *)
(* still in the collection has succeeded, the step that reconciles it      *)
(* gives the card of the temporary id the server id, at the same index and *)
(* with its other fields as they are locally, and changes no other card,   *)
(* no client and not the selection; for a client, the matched client is    *)
(* replaced at its index by the record mapped from the returned row and no *)
(* other client nor any card changes.  Afterwards the temporary id is not  *)
(* in the collection and the server id is in it exactly once.              *)
(***************************************************************************)
Reconciles(c, op) ==
  /\ c.op = op /\ c.phase = "replied" /\ c.result.kind = "ok"
  /\ Deliver(c)

Occurrences(seq, id) == Cardinality({i \in DOMAIN seq : seq[i].id = id})

C19_CreateReconciliation ==
  [][\A c \in calls :
       /\ (Reconciles(c, "insertCard") /\ HasCard(c.temp) =>
             /\ DOMAIN globalState'.cards = DOMAIN cards
             /\ \A i \in DOMAIN cards :
                  IF cards[i].id = c.temp
                  THEN /\ globalState'.cards[i].id = c.result.data.id
                       /\ Without(globalState'.cards[i], {"id"}) = Without(cards[i], {"id"})
                  ELSE globalState'.cards[i] = cards[i]
             /\ Occurrences(cards, c.temp) = 1
             /\ Occurrences(globalState'.cards, c.temp) = 0
             /\ Occurrences(globalState'.cards, c.result.data.id) = 1
             /\ globalState'.clients = clients
             /\ globalState'.currentClientId = currentClientId)
       /\ (Reconciles(c, "insertClient") /\ HasClient(c.temp) =>
             /\ DOMAIN globalState'.clients = DOMAIN clients
             /\ \A i \in DOMAIN clients :
                  IF clients[i].id = c.temp
                  THEN /\ globalState'.clients[i].id = c.result.data.id
                       /\ globalState'.clients[i].name = c.result.data.name
                       /\ globalState'.clients[i].nome = c.result.data.name
                       /\ globalState'.clients[i].createdAt = c.result.data.created_at
                  ELSE globalState'.clients[i] = clients[i]
             /\ Occurrences(clients, c.temp) = 1
             /\ Occurrences(globalState'.clients, c.temp) = 0
             /\ Occurrences(globalState'.clients, c.result.data.id) = 1
             /\ globalState'.cards = cards)
    ]_vars

(***************************************************************************)
(* C20 -- stale reconciliation: when the entity a create call was made for *)
(* is no longer in the collection and the call has succeeded, the step     *)
(* that reconciles it leaves clients, cards and currentClientId as they    *)
(* are.                                                                    *)
(***************************************************************************)
C20_StaleReconciliationIsNoOp ==
  [][\A c \in calls :
       /\ (Reconciles(c, "insertClient") /\ ~HasClient(c.temp) =>
             Local(globalState') = Local(globalState))
       /\ (Reconciles(c, "insertCard") /\ ~HasCard(c.temp) =>
             Local(globalState') = Local(globalState))
    ]_vars

(***************************************************************************)
(* C21 -- last writer wins.  An update issued while an earlier update of   *)
(* the same entity is in flight is applied to the entity as the earlier    *)
(* update left it: the fields it supplies take its values (both name       *)
(* aliases when it supplies one), the others keep theirs.  No resolution   *)
(* of an update call changes the local state, and a resolution that        *)
(* succeeds leaves the remote row with the values of its payload.          *)
(***************************************************************************)
UpdateInFlight(op, id) == \E c \in calls : c.op = op /\ c.id = id

\* updates applied to client c: the supplied fields, the aliases in step
AppliedToClient(u, c) ==
  IF Has(u, "name") \/ Has(u, "nome") THEN normalizeClient(u) @@ c ELSE u @@ c

C21_LastWriterWins ==
  [][/\ \A id \in CardIds(globalState), u \in CardTitleUpdates \cup CardUpdates :
          UpdateInFlight("updateCard", id) /\ updateCard(id, u) =>
            \A i \in DOMAIN cards :
              globalState'.cards[i] =
                IF cards[i].id = id THEN u @@ cards[i] ELSE cards[i]
     /\ \A id \in ClientIds(globalState), u \in ClientUpdates :
          UpdateInFlight("updateClient", id) /\ updateClient(id, u) =>
            \A i \in DOMAIN clients :
              globalState'.clients[i] =
                IF clients[i].id = id THEN AppliedToClient(u, clients[i])
                ELSE clients[i]
     /\ \A c \in calls, o \in Outcomes :
          c.op \in {"updateCard", "updateClient"} /\ Resolve(c, o) =>
            /\ globalState' = globalState
            /\ (o = "ok" =>
                  \A r \in db'[IF c.op = "updateCard" THEN "cards" ELSE "clients"] :
                    r.id = c.id => \A f \in DOMAIN c.payload : r[f] = c.payload[f])
    ]_vars

(***************************************************************************)
(* C22 -- identifier uniqueness.  In every reachable state no two clients  *)
(* of the local collection have the same id and no two cards have the same *)
(* id.                                                                     *)
(***************************************************************************)
C22_IdsUnique ==
  /\ \A i \in DOMAIN clients : Occurrences(clients, clients[i].id) = 1
  /\ \A i \in DOMAIN cards : Occurrences(cards, cards[i].id) = 1

(***************************************************************************)
(* C23 -- referential integrity.  Callers pass as clientId only the id of  *)
(* a client that is in the local collection at the time of the call (the   *)
(* inputs of addCard are drawn so), and in every reachable state the       *)
(* clientId of each card is empty or the id of a client in the local       *)
(* collection.                                                             *)
(***************************************************************************)
C23_CardsReferToLocalClients ==
  \A i \in DOMAIN cards : cards[i].clientId = "" \/ HasClient(cards[i].clientId)

(***************************************************************************)
(* C24 -- array order.  updateClient, updateCard and the create            *)
(* reconciliations keep every entity at the index it had; addClient,       *)
(* addCard and duplicateCard put the new entity after the existing ones,   *)
(* which stay where they were; deleteClient and deleteCard leave the       *)
(* remaining entities in the order they had.                               *)
(***************************************************************************)
\* new has, index by index, the entities of old; the one with id `from` may
\* have changed, and carries id `to`
SameIndexes(old, new, from, to) ==
  /\ DOMAIN new = DOMAIN old
  /\ \A i \in DOMAIN old :
       IF old[i].id = from THEN new[i].id = to ELSE new[i] = old[i]

AppendedTo(old, new) ==
  /\ Len(new) = Len(old) + 1
  /\ SubSeq(new, 1, Len(old)) = old

SelectionInCollection == currentClientId = Null \/ HasClient(currentClientId)

SelectionChangedOnlyBy ==
  globalState'.currentClientId # currentClientId =>
    \/ \E id \in SelectArgs : setCurrentClientId(id)
    \/ \E d \in ClientInputs : addClient(d)
    \/ \E c \in calls : Reconciles(c, "insertClient") /\ currentClientId = c.temp
    \/ \E id \in KnownIds : deleteClient(id) /\ currentClientId = id

C25_SelectionValid == []SelectionInCollection /\ [][SelectionChangedOnlyBy]_vars

(***************************************************************************)
(* C26 -- the frame of updateClient.  updateClient(id, updates) changes    *)
(* only the fields of client id that updates supplies (the two name        *)
(* aliases counting as one field), locally and in the payload of the       *)
(* remote update: every other field of the client keeps its value, so the  *)
(* name is unchanged when updates supplies no name alias, and every other  *)
(* client is unchanged.                                                    *)
(***************************************************************************)
SuppliedFields(u) ==
  DOMAIN u \cup (IF Has(u, "name") \/ Has(u, "nome") THEN {"name", "nome"} ELSE {})

C26_UpdateClientFrame ==
  [][\A id \in ClientIds(globalState), u \in ClientUpdates :
       updateClient(id, u) =>
         /\ DOMAIN globalState'.clients = DOMAIN clients
         /\ \A i \in DOMAIN clients :
              IF clients[i].id = id
              THEN Without(globalState'.clients[i], SuppliedFields(u))
                     = Without(clients[i], SuppliedFields(u))
              ELSE globalState'.clients[i] = clients[i]
         /\ \A c \in calls' \ calls : DOMAIN c.payload \subseteq SuppliedFields(u)
    ]_vars

=============================================================================
